---- MODULE Spec2Model ----
(***************************************************************************)
(* Malawi farm yield predictor: the predict route handler                  *)
(* (src/app/api/predict/route.ts), the upload route handler and the        *)
(* browser page (src/app/page.tsx).                                        *)
(*                                                                         *)
(* Numbers are kept in thousandths: the JavaScript number 2.5 is the       *)
(* integer 2500.  Strings that the code indexes, trims, formats or parses  *)
(* are sequences of one-character strings; strings that are only compared  *)
(* (provider names, error messages) are TLA+ strings.                      *)
(***************************************************************************)
EXTENDS Integers, Sequences, FiniteSets, TLC

VARIABLES
    llamaConfigured,   \* route.ts: llamaAPI is not null (LLAMA_API_KEY is set)
    req,               \* the last request body an HTTP client sent to /api/predict
    upstream,          \* what the upstream provider did for that request
    resp,              \* the predict handler's response to it
    calls,             \* the upstream calls the handler made for it
    upFile,            \* the last file an HTTP client sent to /api/upload
    upResp,            \* the upload handler's response to it
    rainfall,          \* page.tsx useState: rainfall
    provider,          \* page.tsx useState: provider
    chartData,         \* page.tsx useState: chartData
    error,             \* page.tsx useState: error
    isLoading,         \* page.tsx useState: isLoading
    latestPrediction,  \* page.tsx useState: latestPrediction
    pending,           \* predict fetches of the page that have not completed
    fetched,           \* the response the page's last completed predict fetch got
    now                \* the clock: the number of readings of new Date() so far

vars == <<llamaConfigured, req, upstream, resp, calls, upFile, upResp,
          rainfall, provider, chartData, error, isLoading, latestPrediction,
          pending, fetched, now>>

serverVars == <<req, upstream, resp, calls>>
uploadVars == <<upFile, upResp>>
uiVars == <<rainfall, provider, chartData, error, isLoading, latestPrediction, pending,
           fetched>>

-----------------------------------------------------------------------------
(* JavaScript values *)

Milli(n) == n * 1000

Num(n) == [t |-> "number", n |-> n, s |-> <<>>]
NaN == [t |-> "NaN", n |-> 0, s |-> <<>>]
Undefined == [t |-> "undefined", n |-> 0, s |-> <<>>]
Null == [t |-> "null", n |-> 0, s |-> <<>>]
Str(s) == [t |-> "string", n |-> 0, s |-> s]

IsNumber(v) == v.t = "number"

\* typeof v === 'number' (NaN is of type number)
TypeofNumber(v) == v.t \in {"number", "NaN"}

\* !v is false
Truthy(v) ==
    CASE v.t = "number" -> v.n # 0
      [] v.t = "string" -> v.s # <<>>
      [] OTHER -> FALSE

DigitChars == <<"0", "1", "2", "3", "4", "5", "6", "7", "8", "9">>

IsDigit(c) == \E i \in 1..10 : DigitChars[i] = c

DigitVal(c) == (CHOOSE i \in 1..10 : DigitChars[i] = c) - 1

IsSpace(c) == c \in {" ", "\t", "\n"}

\* s[i] of a JavaScript string: the character at 0-based index i, or undefined
CharAt(s, i) == IF i + 1 \in 1..Len(s) THEN Str(<<s[i + 1]>>) ELSE Undefined

\* the number of leading characters of s, from position i on, that satisfy digit
RECURSIVE DigitRun(_, _)
DigitRun(s, i) ==
    IF i <= Len(s) /\ IsDigit(s[i]) THEN 1 + DigitRun(s, i + 1) ELSE 0

RECURSIVE SpaceRun(_, _)
SpaceRun(s, i) ==
    IF i <= Len(s) /\ IsSpace(s[i]) THEN 1 + SpaceRun(s, i + 1) ELSE 0

RECURSIVE TrailingSpaceRun(_, _)
TrailingSpaceRun(s, i) ==
    IF i >= 1 /\ IsSpace(s[i]) THEN 1 + TrailingSpaceRun(s, i - 1) ELSE 0

\* String.prototype.trim
Trim(s) ==
    LET a == SpaceRun(s, 1)
        b == IF a = Len(s) THEN 0 ELSE TrailingSpaceRun(s, Len(s))
    IN  SubSeq(s, a + 1, Len(s) - b)

\* the value of the digits s[i..i+k-1] read as a decimal integer
RECURSIVE DigitsValue(_, _, _)
DigitsValue(s, i, k) ==
    IF k = 0 THEN 0 ELSE DigitsValue(s, i, k - 1) * 10 + DigitVal(s[i + k - 1])

\* the first three fraction digits s[i..], in thousandths
FractionValue(s, i, k) ==
    LET d(j) == IF j < k THEN DigitVal(s[i + j]) ELSE 0
    IN  d(0) * 100 + d(1) * 10 + d(2)

\* the decimal literal (sign, digits, fraction) that starts s after leading
\* white space: its value in thousandths, whether there is one, and the
\* position after it.  Exponents and the literal Infinity are not among the
\* inputs of this model.
DecimalPrefix(s) ==
    LET p0 == SpaceRun(s, 1) + 1
        neg == p0 <= Len(s) /\ s[p0] = "-"
        p1 == IF p0 <= Len(s) /\ s[p0] \in {"-", "+"} THEN p0 + 1 ELSE p0
        ni == DigitRun(s, p1)
        p2 == p1 + ni
        dot == p2 <= Len(s) /\ s[p2] = "."
        nf == IF dot THEN DigitRun(s, p2 + 1) ELSE 0
        mag == Milli(DigitsValue(s, p1, ni)) + FractionValue(s, p2 + 1, nf)
    IN  [found |-> ni + nf > 0,
         val |-> IF neg THEN 0 - mag ELSE mag,
         end |-> IF dot THEN p2 + 1 + nf ELSE p2]

\* parseFloat of a string: the longest prefix that is a decimal literal; NaN
\* when there is none
ParseFloatChars(s) ==
    IF DecimalPrefix(s).found THEN Num(DecimalPrefix(s).val) ELSE NaN

\* parseFloat of any value: the argument is converted to a string first, and
\* the strings "undefined" and "null" hold no number
ParseFloat(v) ==
    CASE v.t = "string" -> ParseFloatChars(v.s)
      [] v.t = "number" -> v
      [] OTHER -> NaN

\* ToNumber, as applied by isNaN, the relational operators and subtraction:
\* a string converts only when the whole of it, trimmed, is a literal
ToNumber(v) ==
    CASE v.t = "number" -> v
      [] v.t = "null" -> Num(0)
      [] v.t = "string" ->
            IF Trim(v.s) = <<>> THEN Num(0)
            ELSE IF DecimalPrefix(Trim(v.s)).found
                    /\ DecimalPrefix(Trim(v.s)).end = Len(Trim(v.s)) + 1
                 THEN Num(DecimalPrefix(Trim(v.s)).val) ELSE NaN
      [] OTHER -> NaN

\* the global isNaN
IsNaN(v) == ToNumber(v).t = "NaN"

\* a < b and a > b of JavaScript, false when either side is NaN
JsLess(a, b) ==
    ToNumber(a).t = "number" /\ ToNumber(b).t = "number" /\ ToNumber(a).n < ToNumber(b).n

JsGreater(a, b) == JsLess(b, a)

\* the decimal digits of a natural number
RECURSIVE NatChars(_)
NatChars(n) ==
    IF n < 10 THEN <<DigitChars[n + 1]>>
    ELSE NatChars(n \div 10) \o <<DigitChars[(n % 10) + 1]>>

\* the hundredths Number.prototype.toFixed(2) may round a value in thousandths
\* to: the nearest one; a value written with a final 5 is not exactly
\* representable as a double, so either neighbour can be the nearest
ToFixed2Hundredths(n) ==
    LET q == n \div 10
        r == n % 10
    IN  IF r < 5 THEN {q} ELSE IF r > 5 THEN {q + 1} ELSE {q, q + 1}

\* the string of h hundredths with two decimals, as toFixed(2) writes it
HundredthsChars(h) ==
    LET a == IF h < 0 THEN 0 - h ELSE h
    IN  (IF h < 0 THEN <<"-">> ELSE <<>>)
        \o NatChars(a \div 100) \o <<".">>
        \o <<DigitChars[((a \div 10) % 10) + 1], DigitChars[(a % 10) + 1]>>

-----------------------------------------------------------------------------
(* The predict handler: src/app/api/predict/route.ts *)

RAINFALL_MIN == 0
RAINFALL_MAX == 5000
YIELD_MIN == 0
YIELD_MAX == 10

\* the value of a request's provider field: a string, absent, or a number
PStr(name) == [t |-> "string", name |-> name]
PUndefined == [t |-> "undefined", name |-> ""]
PNumber == [t |-> "number", name |-> ""]

\* !provider is false (the number stands for a non-zero one)
PTruthy(p) == (p.t = "string" /\ p.name # "") \/ p.t = "number"

\* the list the handler tests the provider against
AllowList == {"openai", "anthropic", "llama"}

\* the providers the RequestBody type declares
DeclaredProviders == {"openai", "anthropic", "llama", "deepseek"}

Includes(p) == p.t = "string" /\ p.name \in AllowList

\* the endpoint each SDK client of the module sends its requests to
AnthropicBaseURL == "https://api.anthropic.com"
OpenAIClientBaseURL == "https://api.deepseek.com"
LlamaBaseURL == "https://api.llama-api.com"

Call(client, baseURL, model) == [client |-> client, baseURL |-> baseURL, model |-> model]

NoResponse ==
    [status |-> 0, error |-> "", prediction |-> <<>>, comment |-> Undefined,
     provider |-> PUndefined, rainfall |-> Undefined, timestamp |-> 0]

ErrorResponse(status, msg) == [NoResponse EXCEPT !.status = status, !.error = msg]

\* the outcome of a stretch of the handler: a thrown Error with its message, or
\* the extracted prediction and comment
Thrown(msg) == [threw |-> TRUE, msg |-> msg, prediction |-> Undefined, comment |-> Undefined]
Extracted(p, c) == [threw |-> FALSE, msg |-> "", prediction |-> p, comment |-> c]

\* const match = <text>; if (match) { prediction = parseFloat(match[1]);
\* comment = match[2].trim() } else throw: match is the text itself, so
\* match[1] and match[2] are its second and third characters, and .trim() of a
\* missing third character is a TypeError
ExtractFromMatch(match, failMsg) ==
    IF ~Truthy(match) THEN Thrown(failMsg)
    ELSE IF CharAt(match.s, 2).t = "undefined"
         THEN Thrown("Cannot read properties of undefined (reading 'trim')")
         ELSE Extracted(ParseFloat(CharAt(match.s, 1)), Str(Trim(CharAt(match.s, 2).s)))

\* the anthropic branch: match is response.content[0].type
AnthropicBranch(up) ==
    IF up.kind = "throw" THEN Thrown(up.msg)
    ELSE ExtractFromMatch(Str(up.blockType), "Failed to parse Anthropic response")

\* the openai and deepseek branches: match is completion.choices[0].message.content
OpenAIBranch(up) ==
    IF up.kind = "throw" THEN Thrown(up.msg)
    ELSE ExtractFromMatch(up.content, "Failed to parse OpenAI response")

\* the llama branch after the key test: any failure of the call, of JSON.parse
\* or of reading the result is rethrown with one message
LlamaBranch(up) ==
    IF up.kind = "throw" \/ ~up.argsParse
    THEN Thrown("Failed to get prediction from Llama API")
    ELSE Extracted(up.yield, up.comment)

\* the if/else chain over provider: the upstream calls made and the outcome
Dispatch(p, up, configured) ==
    CASE p.name = "anthropic" ->
            [calls |-> <<Call("anthropic", AnthropicBaseURL, "claude-3-sonnet-20240229")>>,
             out |-> AnthropicBranch(up)]
      [] p.name = "openai" ->
            [calls |-> <<Call("openai", OpenAIClientBaseURL, "gpt-4o-mini")>>,
             out |-> OpenAIBranch(up)]
      [] p.name = "deepseek" ->
            [calls |-> <<Call("openai", OpenAIClientBaseURL, "deepseek-chat")>>,
             out |-> OpenAIBranch(up)]
      [] p.name = "llama" ->
            IF ~configured
            THEN [calls |-> <<>>, out |-> Thrown("Llama API not configured - missing API key")]
            ELSE [calls |-> <<Call("llama", LlamaBaseURL, "")>>,
                  out |-> LlamaBranch(up)]
      [] OTHER -> [calls |-> <<>>, out |-> Thrown("Invalid provider")]

\* the range test without its upper bound
PredictionRejected_NoUpperBound(prediction) ==
    \/ IsNaN(prediction)
    \/ JsLess(prediction, Num(Milli(YIELD_MIN)))

\* isNaN(prediction) || prediction < YIELD_CONSTRAINTS.MIN || prediction > YIELD_CONSTRAINTS.MAX
PredictionRejected(prediction) ==
    \/ IsNaN(prediction)
    \/ JsLess(prediction, Num(Milli(YIELD_MIN)))
    \/ JsGreater(prediction, Num(Milli(YIELD_MAX)))

\* the early returns without the lower bound on rainfall
ValidationError_NoLowerBound(body) ==
    IF ~Truthy(body.rainfall) \/ ~PTruthy(body.provider)
    THEN "Missing required fields"
    ELSE IF \/ ~TypeofNumber(body.rainfall)
            \/ JsGreater(body.rainfall, Num(Milli(RAINFALL_MAX)))
         THEN "Invalid rainfall value"
         ELSE IF ~Includes(body.provider) THEN "Invalid provider" ELSE ""

\* the early returns without the test of the provider against the list
ValidationError_NoProviderTest(body) ==
    IF ~Truthy(body.rainfall) \/ ~PTruthy(body.provider)
    THEN "Missing required fields"
    ELSE IF \/ ~TypeofNumber(body.rainfall)
            \/ JsLess(body.rainfall, Num(Milli(RAINFALL_MIN)))
            \/ JsGreater(body.rainfall, Num(Milli(RAINFALL_MAX)))
         THEN "Invalid rainfall value"
         ELSE ""

\* the three early returns; "" when the request passes them
ValidationError(body) ==
    IF ~Truthy(body.rainfall) \/ ~PTruthy(body.provider)
    THEN "Missing required fields"
    ELSE IF \/ ~TypeofNumber(body.rainfall)
            \/ JsLess(body.rainfall, Num(Milli(RAINFALL_MIN)))
            \/ JsGreater(body.rainfall, Num(Milli(RAINFALL_MAX)))
         THEN "Invalid rainfall value"
         ELSE IF ~Includes(body.provider) THEN "Invalid provider" ELSE ""

\* the 200 responses of a request whose prediction passed the range test:
\* prediction.toFixed(2) exists on numbers only
SuccessResponses(body, out, ts) ==
    IF ~IsNumber(out.prediction)
    THEN {ErrorResponse(500, "prediction.toFixed is not a function")}
    ELSE {[status |-> 200, error |-> "", prediction |-> HundredthsChars(h),
           comment |-> out.comment, provider |-> body.provider,
           rainfall |-> body.rainfall, timestamp |-> ts]
            : h \in ToFixed2Hundredths(out.prediction.n)}

\* POST: every result the handler can produce for a request body, given what
\* the upstream does and the clock; a result is the response and the calls made.
\* A body that req.json() or the destructuring rejects is answered 500 with the
\* message of that exception, for which "Invalid request body" stands.
POST(body, up, configured, ts) ==
    IF body.kind # "object"
    THEN {[resp |-> ErrorResponse(500, "Invalid request body"), calls |-> <<>>]}
    ELSE IF ValidationError(body) # ""
    THEN {[resp |-> ErrorResponse(400, ValidationError(body)), calls |-> <<>>]}
    ELSE LET d == Dispatch(body.provider, up, configured)
         IN  IF d.out.threw
             THEN {[resp |-> ErrorResponse(500, d.out.msg), calls |-> d.calls]}
             ELSE IF PredictionRejected(d.out.prediction)
             THEN {[resp |-> ErrorResponse(500, "Invalid prediction value"), calls |-> d.calls]}
             ELSE {[resp |-> r, calls |-> d.calls]
                     : r \in SuccessResponses(body, d.out, ts)}

-----------------------------------------------------------------------------
(* The upload handler: POST at the end of src/app/page.tsx *)

RainfallKey == <<"r", "a", "i", "n", "f", "a", "l", "l">>
YieldKey == <<"y", "i", "e", "l", "d">>

NoFile == [present |-> FALSE, rows |-> <<>>]
CsvFile(rows) == [present |-> TRUE, rows |-> rows]

UploadResponse(status, success, message, data) ==
    [status |-> status, success |-> success, message |-> message, data |-> data]

NoUploadResponse == UploadResponse(0, FALSE, "", <<>>)

\* skip_empty_lines: the lines of the file that hold at least one field
NonEmptyRows(rows) == SelectSeq(rows, LAMBDA r : r # <<>>)

\* record[name] of a record built with columns: true: the field under the
\* (last) column of the first line that has this name, or undefined
Field(header, row, name) ==
    LET idx == {i \in 1..Len(header) : header[i] = name}
    IN  IF idx = {} THEN Undefined
        ELSE Str(row[CHOOSE i \in idx : \A j \in idx : j <= i])

\* parse(buffer, {columns: true, skip_empty_lines: true}): the first line names
\* the columns whatever it holds, every later line is one record; a line whose
\* field count differs from the first line's makes parse throw
ParseThrows(rows) ==
    LET lines == NonEmptyRows(rows)
    IN  \E i \in 2..Len(lines) : Len(lines[i]) # Len(lines[1])

\* JSON.stringify writes NaN as null
JsonNumber(v) == IF v.t = "NaN" THEN Null ELSE v

\* records.map(...) as the client reads it from the JSON response
ProcessedData(rows) ==
    LET lines == NonEmptyRows(rows)
    IN  [i \in 1..(IF Len(lines) = 0 THEN 0 ELSE Len(lines) - 1) |->
            [rainfall |-> JsonNumber(ParseFloat(Field(lines[1], lines[i + 1], RainfallKey))),
             yield |-> JsonNumber(ParseFloat(Field(lines[1], lines[i + 1], YieldKey)))]]

UploadPOST(file) ==
    IF ~file.present THEN UploadResponse(400, FALSE, "No file uploaded", <<>>)
    ELSE IF ParseThrows(file.rows)
    THEN UploadResponse(500, FALSE, "Error parsing CSV file", <<>>)
    ELSE UploadResponse(200, TRUE, "", ProcessedData(file.rows))

-----------------------------------------------------------------------------
(* The page: Home in src/app/page.tsx *)

Point(r, y, p, ts, c) ==
    [rainfall |-> r, yield |-> y, provider |-> p, timestamp |-> ts, comment |-> c]

\* (a, b) => a.rainfall - b.rainfall is negative or zero
RainfallLeq(a, b) == ToNumber(a.rainfall).n <= ToNumber(b.rainfall).n

\* Array.prototype.sort is stable: an element goes after every element that
\* does not compare greater than it
InsertSorted(sorted, x) ==
    LET n == IF \A i \in 1..Len(sorted) : RainfallLeq(sorted[i], x) THEN Len(sorted)
             ELSE (CHOOSE i \in 1..Len(sorted) :
                     /\ ~RainfallLeq(sorted[i], x)
                     /\ \A j \in 1..(i - 1) : RainfallLeq(sorted[j], x)) - 1
    IN  SubSeq(sorted, 1, n) \o <<x>> \o SubSeq(sorted, n + 1, Len(sorted))

RECURSIVE SortByRainfall(_)
SortByRainfall(a) ==
    IF a = <<>> THEN <<>>
    ELSE InsertSorted(SortByRainfall(SubSeq(a, 1, Len(a) - 1)), a[Len(a)])

SamePair(t, v) == t.rainfall = v.rainfall /\ t.provider = v.provider

\* a.findIndex(t => t.rainfall === v.rainfall && t.provider === v.provider)
FindIndex(a, v) == CHOOSE i \in 1..Len(a) : SamePair(a[i], v) /\ \A j \in 1..(i - 1) : ~SamePair(a[j], v)

\* newData.filter((v, i, a) => i === a.findIndex(...)): the first of each pair stays
RECURSIVE FilterFirst(_, _)
FilterFirst(a, i) ==
    IF i > Len(a) THEN <<>>
    ELSE (IF FindIndex(a, a[i]) = i THEN <<a[i]>> ELSE <<>>) \o FilterFirst(a, i + 1)

\* the updater given to setChartData in handlePredict
AddPrediction(prevData, newPrediction) ==
    FilterFirst(SortByRainfall(Append(prevData, newPrediction)), 1)

\* the updater given to setChartData in handleFileUpload
AddHistorical(prevData, data, ts) ==
    prevData \o [i \in 1..Len(data) |->
                    Point(data[i].rainfall, data[i].yield, "historical", ts, Undefined)]

-----------------------------------------------------------------------------
(* Inputs *)

\* the number of times the clock is read: each reading is later than the last
MaxClock == 2

Chars_text == <<"t", "e", "x", "t">>
Chars_ok == <<"o", "k">>

\* a provider's reply: a number, a space and a comment
Render(number, comment) == number \o <<" ">> \o comment

NumberLiterals == {<<"2", ".", "5">>, <<"7">>, <<"1", "0">>, <<"1", "2">>}
Comments == {Chars_ok, <<"d", "r", "y">>}

NoUpstream ==
    [kind |-> "none", msg |-> "", blockType |-> <<>>, content |-> Undefined,
     argsParse |-> FALSE, yield |-> Undefined, comment |-> Undefined]

UpstreamThrow == [NoUpstream EXCEPT !.kind = "throw", !.msg = "Connection error."]

\* a chat completion or a message whose text is the given value
TextReply(content) ==
    [NoUpstream EXCEPT !.kind = "reply", !.blockType = Chars_text, !.content = content]

\* a llama reply whose function_call.arguments parse to {yield, comment}
ArgsReply(yield, comment) ==
    [NoUpstream EXCEPT !.kind = "reply", !.argsParse = TRUE, !.yield = yield, !.comment = comment]

\* a llama reply whose function_call.arguments are not JSON
BadArgsReply == [NoUpstream EXCEPT !.kind = "reply"]

TextContents ==
    {Null, Str(<<>>), Str(<<"7">>), Str(<<"3", "5", " ", "t">>), Str(<<"a", "9", "b">>)}
    \cup {Str(Render(n, c)) : n \in NumberLiterals, c \in Comments}

LlamaYields ==
    {Num(2500), Num(2675), Num(9995), Num(9996), Num(10000), Num(10001), Num(0), Num(-1),
     Str(<<"2", ".", "5">>), Str(<<"a">>), Null, Undefined}

\* what the upstream can do for a call made through the given SDK client
UpstreamOutcomes(client) ==
    IF client = "llama"
    THEN {UpstreamThrow, BadArgsReply, ArgsReply(Num(2500), Undefined)}
         \cup {ArgsReply(y, Str(Chars_ok)) : y \in LlamaYields}
    ELSE {UpstreamThrow} \cup {TextReply(c) : c \in TextContents}

\* the upstream outcomes a request can meet: none when the handler makes no call
OutcomesFor(body, configured) ==
    IF body.kind # "object" \/ ValidationError(body) # "" THEN {NoUpstream}
    ELSE LET c == Dispatch(body.provider, NoUpstream, configured).calls
         IN  IF c = <<>> THEN {NoUpstream} ELSE UpstreamOutcomes(c[1].client)

Body(r, p) == [kind |-> "object", rainfall |-> r, provider |-> p]

\* a body that is the JSON null, and one that is not JSON: req.json() or the
\* destructuring throws
NonObjectBodies ==
    {[kind |-> "null", rainfall |-> Undefined, provider |-> PUndefined],
     [kind |-> "malformed", rainfall |-> Undefined, provider |-> PUndefined]}

RainfallValues ==
    {Undefined, Str(<<"9", "0", "0">>), Num(-1), Num(0), Num(Milli(900)),
     Num(Milli(RAINFALL_MAX)), Num(Milli(RAINFALL_MAX) + 1)}

ProviderValues ==
    {PUndefined, PNumber, PStr(""), PStr("gemini")} \cup {PStr(p) : p \in DeclaredProviders}

Bodies == NonObjectBodies \cup {Body(r, p) : r \in RainfallValues, p \in ProviderValues}

Line_header == <<RainfallKey, YieldKey>>
Line_800 == <<<<"8", "0", "0">>, <<"2", ".", "1">>>>
Line_1500 == <<<<"1", "5", "0", "0">>, <<"3", ".", "4">>>>

Files ==
    {CsvFile(<<>>),
     CsvFile(<<Line_header, Line_800, Line_1500>>),
     CsvFile(<<Line_header, <<>>, Line_1500, Line_800>>),
     CsvFile(<<Line_header, <<<<"w", "e", "t">>, <<"2", ".", "1">>>>>>),
     CsvFile(<<Line_800>>),
     CsvFile(<<Line_800, Line_1500>>),
     CsvFile(<<Line_800, <<<<"1", "5", "0", "0">>>>>>)}

\* what the user can type into the rainfall field and pick as provider
UIRainfalls == {Milli(-1), 0, Milli(900), Milli(RAINFALL_MAX + 1)}
UIProviders == {"openai", "anthropic", "llama"}

\* the replies met by the page's requests
UIOutcomes(client) ==
    IF client = "llama"
    THEN {UpstreamThrow, ArgsReply(Num(2500), Str(Chars_ok))}
    ELSE {UpstreamThrow, TextReply(Str(<<"3", "5", " ", "t">>)),
          TextReply(Str(Render(<<"2", ".", "5">>, Chars_ok)))}

UIOutcomesFor(body, configured) ==
    IF OutcomesFor(body, configured) = {NoUpstream} THEN {NoUpstream}
    ELSE UIOutcomes(Dispatch(body.provider, NoUpstream, configured).calls[1].client)

UIFiles ==
    {CsvFile(<<Line_header, Line_1500, Line_800>>),
     CsvFile(<<Line_800, Line_1500>>),
     CsvFile(<<Line_800, <<<<"1", "5", "0", "0">>>>>>)}

-----------------------------------------------------------------------------
(* State machine *)

Init ==
    /\ llamaConfigured \in BOOLEAN
    /\ req = Body(Undefined, PUndefined)
    /\ upstream = NoUpstream
    /\ resp = NoResponse
    /\ calls = <<>>
    /\ upFile = NoFile
    /\ upResp = NoUploadResponse
    /\ rainfall = Milli(900)
    /\ provider = "openai"
    /\ chartData = <<>>
    /\ error = ""
    /\ isLoading = FALSE
    /\ latestPrediction = <<>>
    /\ pending = <<>>
    /\ fetched = NoResponse
    /\ now = 0

\* a request from any HTTP client reaches POST /api/predict
DirectPredict(body, up) ==
    /\ \E res \in POST(body, up, llamaConfigured, now) :
          /\ req' = body
          /\ upstream' = up
          /\ resp' = res.resp
          /\ calls' = res.calls
          /\ res.resp.status = 200 => now < MaxClock
          /\ now' = (IF res.resp.status = 200 THEN now + 1 ELSE now)
    /\ UNCHANGED <<llamaConfigured, uploadVars, uiVars>>

\* a request from any HTTP client reaches POST /api/upload
DirectUpload(file) ==
    /\ upFile' = file
    /\ upResp' = UploadPOST(file)
    /\ UNCHANGED <<llamaConfigured, serverVars, uiVars, now>>

\* onChange of the rainfall input
SetRainfall(r) ==
    /\ rainfall' = r
    /\ UNCHANGED <<llamaConfigured, serverVars, uploadVars, provider, chartData, error,
                   isLoading, latestPrediction, pending, fetched, now>>

\* onValueChange of the provider select
SetProvider(p) ==
    /\ provider' = p
    /\ UNCHANGED <<llamaConfigured, serverVars, uploadVars, rainfall, chartData, error,
                   isLoading, latestPrediction, pending, fetched, now>>

\* handlePredict reachable while a request is outstanding: the button never disabled
SubmitPredict_NeverDisabled ==
    /\ now + Len(pending) < MaxClock
    /\ IF rainfall < 0
       THEN /\ error' = "Rainfall cannot be negative"
            /\ isLoading' = FALSE
            /\ pending' = pending
       ELSE IF rainfall > Milli(5000)
       THEN /\ error' = "Please enter a realistic rainfall value (less than 5000mm)"
            /\ isLoading' = FALSE
            /\ pending' = pending
       ELSE /\ error' = ""
            /\ isLoading' = TRUE
            /\ pending' = Append(pending, [rainfall |-> rainfall, provider |-> provider])
    /\ UNCHANGED <<llamaConfigured, serverVars, uploadVars, rainfall, provider, chartData,
                   latestPrediction, fetched, now>>

\* handlePredict up to the fetch: the submit button is disabled while isLoading
SubmitPredict ==
    /\ ~isLoading
    /\ now + Len(pending) < MaxClock
    /\ IF rainfall < 0
       THEN /\ error' = "Rainfall cannot be negative"
            /\ isLoading' = FALSE
            /\ pending' = pending
       ELSE IF rainfall > Milli(5000)
       THEN /\ error' = "Please enter a realistic rainfall value (less than 5000mm)"
            /\ isLoading' = FALSE
            /\ pending' = pending
       ELSE /\ error' = ""
            /\ isLoading' = TRUE
            /\ pending' = Append(pending, [rainfall |-> rainfall, provider |-> provider])
    /\ UNCHANGED <<llamaConfigured, serverVars, uploadVars, rainfall, provider, chartData,
                   latestPrediction, fetched, now>>

RemoveAt(q, i) == SubSeq(q, 1, i - 1) \o SubSeq(q, i + 1, Len(q))

\* handlePredict after the fetch, for a response r to the request p
PredictContinuation(p, r) ==
    IF r.status \notin 200..299
    THEN /\ error' = "Failed to fetch prediction"
         /\ UNCHANGED <<latestPrediction, chartData>>
    ELSE IF r.error # ""
    THEN /\ error' = r.error
         /\ UNCHANGED <<latestPrediction, chartData>>
    ELSE LET newPrediction ==
                Point(Num(p.rainfall), ParseFloat(Str(r.prediction)), p.provider,
                      r.timestamp, r.comment)
         IN  /\ latestPrediction' = <<newPrediction>>
             /\ chartData' = AddPrediction(chartData, newPrediction)
             /\ error' = error

\* the i-th outstanding fetch reaches the predict handler, which answers, and
\* handlePredict runs to its end
PredictComplete(i, up) ==
    /\ i \in 1..Len(pending)
    /\ LET body == Body(Num(pending[i].rainfall), PStr(pending[i].provider))
       IN  /\ up \in UIOutcomesFor(body, llamaConfigured)
           /\ \E res \in POST(body, up, llamaConfigured, now) :
                 /\ fetched' = res.resp
                 /\ now' = (IF res.resp.status = 200 THEN now + 1 ELSE now)
                 /\ PredictContinuation(pending[i], res.resp)
    /\ isLoading' = FALSE
    /\ pending' = RemoveAt(pending, i)
    /\ UNCHANGED <<llamaConfigured, serverVars, uploadVars, rainfall, provider>>

\* the i-th outstanding fetch rejects: the request never reached the handler
PredictNetworkFailure(i) ==
    /\ i \in 1..Len(pending)
    /\ error' = "Failed to fetch"
    /\ isLoading' = FALSE
    /\ pending' = RemoveAt(pending, i)
    /\ UNCHANGED <<llamaConfigured, serverVars, uploadVars, rainfall, provider, chartData,
                   latestPrediction, fetched, now>>

\* handleFileUpload with a chosen file: the upload handler answers and the
\* page takes the rows
UploadFile(file) ==
    /\ file.present
    /\ now + Len(pending) < MaxClock
    /\ LET result == UploadPOST(file)
       IN  IF result.status \notin 200..299
           THEN error' = "Upload failed" /\ chartData' = chartData /\ now' = now
           ELSE IF result.success
           THEN /\ error' = error
                /\ chartData' = AddHistorical(chartData, result.data, now)
                /\ now' = (IF Len(result.data) > 0 THEN now + 1 ELSE now)
           ELSE /\ error' = (IF result.message # "" THEN result.message
                             ELSE "Error uploading file")
                /\ chartData' = chartData
                /\ now' = now
    /\ UNCHANGED <<llamaConfigured, serverVars, uploadVars, rainfall, provider, isLoading,
                   latestPrediction, pending, fetched>>

\* the page with its user, the two handlers behind it and the upstream providers
Next ==
    \/ \E r \in UIRainfalls : SetRainfall(r)
    \/ \E p \in UIProviders : SetProvider(p)
    \/ SubmitPredict
    \/ \E i \in 1..Len(pending) :
          \E up \in UIOutcomes("openai") \cup UIOutcomes("llama") \cup {NoUpstream} :
             PredictComplete(i, up)
    \/ \E i \in 1..Len(pending) : PredictNetworkFailure(i)
    \/ \E f \in UIFiles : UploadFile(f)

Spec == Init /\ [][Next]_vars

\* the two handlers called by arbitrary HTTP clients
NextApi ==
    \/ \E b \in Bodies : \E up \in OutcomesFor(b, llamaConfigured) : DirectPredict(b, up)
    \/ \E f \in Files \cup {NoFile} : DirectUpload(f)

SpecApi == Init /\ [][NextApi]_vars

-----------------------------------------------------------------------------
(* Properties *)

\* the predict handler has answered the request held in req
Answered == resp.status # 0

\* the request held in req has an object body and passed the early returns
PassedValidation == Answered /\ req.kind = "object" /\ ValidationError(req) = ""

\* C1: a request whose rainfall is a number below 0 or above 5000, whatever its
\* provider, is answered 400 and no upstream call is made.
C1_OutOfRangeRainfallRejected ==
    (/\ Answered
     /\ req.kind = "object"
     /\ req.rainfall.t = "number"
     /\ (req.rainfall.n < 0 \/ req.rainfall.n > Milli(5000)))
    => (resp.status = 400 /\ calls = <<>>)

\* a rainfall just below 0 with a listed provider was answered 400 with no call
C1_Witness ==
    /\ req = Body(Num(-1), PStr("openai"))
    /\ resp.status = 400
    /\ resp.error = "Invalid rainfall value"
    /\ calls = <<>>

\* C2: a request with a finite rainfall in [0, 5000], bounds included, and a
\* provider among openai, anthropic, llama, deepseek is not answered 400.
C2_DocumentedDomainAccepted ==
    (/\ Answered
     /\ req.kind = "object"
     /\ req.rainfall.t = "number"
     /\ req.rainfall.n >= 0
     /\ req.rainfall.n <= Milli(5000)
     /\ req.provider \in {PStr(p) : p \in {"openai", "anthropic", "llama", "deepseek"}})
    => resp.status # 400

\* C3: when openai or anthropic replies with text made of a number in [0, 10],
\* a space and a comment, the answer is 200 with that number written with two
\* decimals as prediction and the comment as comment.
C3_NumberThenCommentExtracted ==
    \A n \in NumberLiterals, c \in Comments :
        (/\ PassedValidation
         /\ req.provider.name \in {"openai", "anthropic"}
         /\ upstream.kind = "reply"
         /\ upstream.content = Str(Render(n, c))
         /\ ParseFloatChars(n).n >= 0
         /\ ParseFloatChars(n).n <= Milli(10))
        => /\ resp.status = 200
           /\ resp.prediction \in
                {HundredthsChars(h) : h \in ToFixed2Hundredths(ParseFloatChars(n).n)}
           /\ resp.comment = Str(c)

\* the API of the vendor a provider name stands for
VendorAPI(name) ==
    CASE name = "openai" -> "https://api.openai.com"
      [] name = "anthropic" -> "https://api.anthropic.com"
      [] name = "llama" -> "https://api.llama-api.com"
      [] name = "deepseek" -> "https://api.deepseek.com"
      [] OTHER -> ""

\* C4: a request that passes validation makes exactly one upstream call, and
\* the call goes to the API of the provider the request names.
C4_ExactlyOneMatchingCall ==
    PassedValidation
    => (Len(calls) = 1 /\ calls[1].baseURL = VendorAPI(req.provider.name))

\* what the handler extracted from the upstream reply to the request in req
ExtractedOutcome == Dispatch(req.provider, upstream, llamaConfigured).out

\* the distance between two numbers
Distance(a, b) == IF a < b THEN b - a ELSE a - b

\* C5: the prediction of a 200 response parses back to a number in [0, 10],
\* within rounding of the value extracted; an extracted value that is not a
\* number or lies outside [0, 10] is answered 500.
C5_PredictionWithinYieldRange ==
    /\ (Answered /\ resp.status = 200)
       => /\ ParseFloatChars(resp.prediction).t = "number"
          /\ ParseFloatChars(resp.prediction).n >= 0
          /\ ParseFloatChars(resp.prediction).n <= Milli(10)
          /\ ExtractedOutcome.prediction.t = "number"
          /\ Distance(ParseFloatChars(resp.prediction).n, ExtractedOutcome.prediction.n) <= 5
    /\ (/\ PassedValidation
        /\ ~ExtractedOutcome.threw
        /\ \/ ExtractedOutcome.prediction.t # "number"
           \/ ExtractedOutcome.prediction.n < 0
           \/ ExtractedOutcome.prediction.n > Milli(10))
       => resp.status = 500

\* a llama yield of 9.996 was answered 200 with the prediction 10.00
C5_Witness ==
    /\ PassedValidation
    /\ req.provider = PStr("llama")
    /\ upstream.yield = Num(9996)
    /\ resp.status = 200
    /\ resp.prediction = <<"1", "0", ".", "0", "0">>

\* C6: a request whose provider is not in the handler's list, an empty or
\* absent provider included, is answered 400 and no upstream call is made.
C6_UnlistedProviderRejected ==
    (/\ Answered
     /\ req.kind = "object"
     /\ ~(req.provider.t = "string" /\ req.provider.name \in AllowList))
    => (resp.status = 400 /\ calls = <<>>)

\* a valid rainfall with an unknown provider was answered 400 with no call
C6_Witness ==
    /\ req = Body(Num(Milli(900)), PStr("gemini"))
    /\ resp.status = 400
    /\ resp.error = "Invalid provider"
    /\ calls = <<>>

\* a step in which a predict fetch of the page completes with a response
PredictCompletes == \E i \in 1..Len(pending) :
    \E up \in UIOutcomes("openai") \cup UIOutcomes("llama") \cup {NoUpstream} :
        PredictComplete(i, up)

\* C7: when a submission returns a point whose (rainfall, provider) pair is
\* already in the chart list, the list afterwards holds exactly one point for
\* the pair, and it is the new one.
C7_DuplicateReplacedByNew ==
    [][(/\ PredictCompletes
        /\ fetched'.status = 200
        /\ \E k \in 1..Len(chartData) : SamePair(chartData[k], latestPrediction'[1]))
       => /\ Cardinality({k \in 1..Len(chartData') :
                            SamePair(chartData'[k], latestPrediction'[1])}) = 1
          /\ \A k \in 1..Len(chartData') :
                SamePair(chartData'[k], latestPrediction'[1])
                => chartData'[k] = latestPrediction'[1]]_vars

\* C8: after a submission that the handler answered with a 400 or 500, the
\* page's error is the error message of that response.
C8_ServerErrorShownVerbatim ==
    [][(PredictCompletes /\ fetched'.status \in {400, 500})
       => error' = fetched'.error]_vars

\* the first line of the file is a data row: every field of it is a number
HasNoHeaderRow(file) ==
    /\ file.present
    /\ NonEmptyRows(file.rows) # <<>>
    /\ \A k \in 1..Len(NonEmptyRows(file.rows)[1]) :
          ParseFloatChars(NonEmptyRows(file.rows)[1][k]).t = "number"

\* C9: an upload whose CSV has no header row is answered success:false.
C9_HeaderlessCsvFails ==
    HasNoHeaderRow(upFile) => ~upResp.success

\* C10: the chart list is in ascending order of rainfall.
C10_ChartSortedByRainfall ==
    \A i, j \in 1..Len(chartData) :
        i < j => ToNumber(chartData[i].rainfall).n <= ToNumber(chartData[j].rainfall).n


\* C11: the page has at most one predict request in flight, and the submit
\* control is disabled (isLoading) exactly while one is: from the fetch until
\* its completion, and not after a success, a server error, a network failure
\* or a client-side validation failure.
C11_AtMostOneInFlight ==
    /\ Len(pending) <= 1
    /\ isLoading <=> Len(pending) = 1

\* after a request was answered with an error the control was enabled again
\* and a second request is now in flight, with the control disabled
C11_Witness ==
    /\ fetched.status = 500
    /\ Len(pending) = 1
    /\ isLoading

====
